---- MODULE Spec2Model ----
(***************************************************************************)
(* Model of the batch extractor (main.py, extractors.py, utils.py,        *)
(* config.py).  A file name is a sequence of one-character strings, a      *)
(* path is a sequence of names relative to work_dir, and the tree is the   *)
(* pair of a function from file paths to contents and a set of directory   *)
(* paths.                                                                  *)
(***************************************************************************)
EXTENDS Integers, Sequences, FiniteSets, TLC

\* ------------------------------------------------------------------ bounds
\* largest value int(time.time()) takes in a run; the clock is read once
\* for each call of extract_single_file
MaxTime == 1
\* how many times unlink() of an original may fail in a run
MaxDeleteFailures == 1
\* longest name, in characters or bytes, given to a function of utils.py
MaxNameLen == 3
\* largest counter of a numbered name that may exist before a call of
\* avoid_filename_conflict, next to the case that all 9999 exist
MaxCollisions == 3

\* --------------------------------------------------------------- config.py
MAX_PROCESSING_ROUNDS == 50

EXT_ZIP == <<".", "z", "i", "p">>
EXT_RAR == <<".", "r", "a", "r">>
EXT_7Z == <<".", "7", "z">>
EXT_TAR == <<".", "t", "a", "r">>
EXT_TAR_GZ == <<".", "t", "a", "r", ".", "g", "z">>
EXT_TGZ == <<".", "t", "g", "z">>
EXT_TAR_BZ2 == <<".", "t", "a", "r", ".", "b", "z", "2">>
EXT_TBZ2 == <<".", "t", "b", "z", "2">>
EXT_TAR_XZ == <<".", "t", "a", "r", ".", "x", "z">>
EXT_TXZ == <<".", "t", "x", "z">>

SUPPORTED_EXTENSIONS ==
  {EXT_ZIP, EXT_RAR, EXT_7Z, EXT_TAR, EXT_TAR_GZ, EXT_TGZ, EXT_TAR_BZ2,
   EXT_TBZ2, EXT_TAR_XZ, EXT_TXZ}

COMPOUND_EXTENSIONS == <<EXT_TAR_GZ, EXT_TAR_BZ2, EXT_TAR_XZ>>

ILLEGAL_CHARS == {"<", ">", ":", "\"", "/", "\\", "|", "?", "*"}

STATS_FIELDS ==
  {"found", "processed", "success", "error", "total_size", "freed_size",
   "extracted_files"}

\* ------------------------------------------------------- string primitives
EndsWith(s, suf) ==
  /\ Len(s) >= Len(suf)
  /\ SubSeq(s, Len(s) - Len(suf) + 1, Len(s)) = suf

StartsWith(s, pre) ==
  /\ Len(s) >= Len(pre)
  /\ SubSeq(s, 1, Len(pre)) = pre

\* str.__contains__ for a substring
Contains(s, sub) ==
  \E k \in 1..(Len(s) - Len(sub) + 1) : SubSeq(s, k, k + Len(sub) - 1) = sub

\* str.rfind of one character, 1-based, 0 when absent
RFind(s, c) ==
  LET hits == {k \in 1..Len(s) : s[k] = c}
  IN  IF hits = {} THEN 0 ELSE CHOOSE k \in hits : \A j \in hits : j <= k

\* str.lower on the letters the model uses in upper case
LowerChar(c) ==
  CASE c = "Z" -> "z"
    [] c = "I" -> "i"
    [] c = "P" -> "p"
    [] OTHER -> c

Lower(s) == [k \in 1..Len(s) |-> LowerChar(s[k])]

\* str.split(sep) for a one-character separator: empty pieces are kept
RECURSIVE Split(_, _)
Split(s, sep) ==
  LET hits == {k \in 1..Len(s) : s[k] = sep}
  IN  IF hits = {} THEN <<s>>
      ELSE LET k == CHOOSE h \in hits : \A j \in hits : h <= j
           IN  <<SubSeq(s, 1, k - 1)>> \o Split(SubSeq(s, k + 1, Len(s)), sep)

\* sep.join(parts)
RECURSIVE Join(_, _)
Join(parts, sep) ==
  IF parts = <<>> THEN <<>>
  ELSE IF Len(parts) = 1 THEN parts[1]
  ELSE parts[1] \o <<sep>> \o Join(Tail(parts), sep)

\* str.strip(chars)
RECURSIVE LStrip(_, _)
LStrip(s, chars) ==
  IF s # <<>> /\ s[1] \in chars THEN LStrip(Tail(s), chars) ELSE s

RECURSIVE RStrip(_, _)
RStrip(s, chars) ==
  IF s # <<>> /\ s[Len(s)] \in chars
  THEN RStrip(SubSeq(s, 1, Len(s) - 1), chars) ELSE s

\* the characters removed wherever they stand, as str.replace would
StripAll(s, chars) == SelectSeq(s, LAMBDA c : c \notin chars)

Strip(s, chars) == RStrip(LStrip(s, chars), chars)

DIGITS == <<"0", "1", "2", "3", "4", "5", "6", "7", "8", "9">>

\* str(n) of a natural number
RECURSIVE Decimal(_)
Decimal(n) ==
  IF n < 10 THEN <<DIGITS[n + 1]>>
  ELSE Decimal(n \div 10) \o <<DIGITS[(n % 10) + 1]>>

\* unicodedata.normalize('NFC', s) on the model's alphabet: the only
\* decomposed pair is e + U+0301 (combining acute), which composes to U+00E9
RECURSIVE NFC(_)
NFC(s) ==
  IF s = <<>> THEN <<>>
  ELSE IF Len(s) >= 2 /\ s[1] = "e" /\ s[2] = "U+0301"
       THEN <<"U+00E9">> \o NFC(SubSeq(s, 3, Len(s)))
       ELSE <<s[1]>> \o NFC(Tail(s))

\* ------------------------------------------------------------ pathlib, os
\* PurePath.suffix of a file name
Suffix(name) ==
  LET k == RFind(name, ".")
  IN  IF 1 < k /\ k < Len(name) THEN SubSeq(name, k, Len(name)) ELSE <<>>

\* PurePath.stem of a file name
Stem(name) ==
  LET k == RFind(name, ".")
  IN  IF 1 < k /\ k < Len(name) THEN SubSeq(name, 1, k - 1) ELSE name

\* PurePath.parent and PurePath.name of a path below work_dir
Parent(p) == SubSeq(p, 1, Len(p) - 1)
Name(p) == p[Len(p)]

\* str(path)
PathStr(p) == Join(p, "/")

\* q is p or an ancestor directory of p
IsPrefix(q, p) == Len(q) <= Len(p) /\ SubSeq(p, 1, Len(q)) = q

\* os.path.basename
Basename(s) == SubSeq(s, RFind(s, "/") + 1, Len(s))

\* the name taken whole, as if it had no extension
NoSplit(name) == <<name, <<>>>>

\* os.path.splitext of a file name: <<root, ext>>
SplitExt(name) ==
  LET k == RFind(name, ".")
  IN  IF k > 0 /\ \E j \in 1..(k - 1) : name[j] # "."
      THEN <<SubSeq(name, 1, k - 1), SubSeq(name, k, Len(name))>>
      ELSE <<name, <<>>>>

\* ----------------------------------------------------------------- utils.py
UNNAMED_PREFIX ==
  <<"u", "n", "n", "a", "m", "e", "d", "_", "f", "i", "l", "e", "_">>

\* f"unnamed_file_{int(time.time())}" when the clock reads t
UnnamedFile(t) == UNNAMED_PREFIX \o Decimal(t)

\* safe_filename without lines 57-61: neither the strip nor the empty name
ReplaceOnly(filename, t) ==
  [k \in 1..Len(NFC(filename)) |->
     IF NFC(filename)[k] \in ILLEGAL_CHARS THEN "_" ELSE NFC(filename)[k]]

\* safe_filename on a text name, the clock reading t
safe_filename(filename, t) ==
  LET normalized == NFC(filename)
      replaced == [k \in 1..Len(normalized) |->
                     IF normalized[k] \in ILLEGAL_CHARS THEN "_"
                     ELSE normalized[k]]
      stripped == Strip(replaced, {".", " "})
  IN  IF stripped = <<>> THEN UnnamedFile(t) ELSE stripped

\* A bytes name is a sequence of bytes, written in hexadecimal: "61" is a,
\* "2e" the dot and "3a" the colon; "c3", "a9", "81" and "ff" are not ASCII.
ENCODING_ORDER ==
  <<"utf-8", "gbk", "gb2312", "big5", "shift_jis", "cp932", "latin1">>

ASCII == ("61" :> "a") @@ ("2e" :> ".") @@ ("3a" :> ":")

\* the bytes a codec decodes on their own, and the character each gives
SingleByte(encoding) ==
  CASE encoding = "shift_jis" ->
         ASCII @@ ("c3" :> "U+FF83") @@ ("a9" :> "U+FF69")
    [] encoding = "cp932" ->
         ASCII @@ ("c3" :> "U+FF83") @@ ("a9" :> "U+FF69")
               @@ ("ff" :> "U+F8F3")
    [] encoding = "latin1" ->
         ASCII @@ ("c3" :> "U+00C3") @@ ("a9" :> "U+00A9")
               @@ ("81" :> "U+0081") @@ ("ff" :> "U+00FF")
    [] OTHER -> ASCII

\* the byte pairs a codec decodes to one character
DoubleByte(encoding) ==
  CASE encoding = "utf-8" ->
         (<<"c3", "a9">> :> "U+00E9") @@ (<<"c3", "81">> :> "U+00C1")
    [] encoding = "gbk" ->
         (<<"c3", "61">> :> "U+80CA") @@ (<<"c3", "c3">> :> "U+59B9")
         @@ (<<"c3", "a9">> :> "U+8305") @@ (<<"c3", "81">> :> "U+8115")
         @@ (<<"a9", "61">> :> "U+309B") @@ (<<"a9", "c3">> :> "U+251F")
         @@ (<<"a9", "a9">> :> "U+2505") @@ (<<"a9", "81">> :> "U+FE63")
         @@ (<<"81", "61">> :> "U+4E64") @@ (<<"81", "c3">> :> "U+4F31")
         @@ (<<"81", "a9">> :> "U+4EFC") @@ (<<"81", "81">> :> "U+4E96")
    [] encoding = "gb2312" ->
         (<<"c3", "c3">> :> "U+59B9") @@ (<<"c3", "a9">> :> "U+8305")
         @@ (<<"a9", "c3">> :> "U+251F") @@ (<<"a9", "a9">> :> "U+2505")
    [] encoding = "big5" ->
         (<<"c3", "61">> :> "U+58DE") @@ (<<"c3", "c3">> :> "U+85E4")
         @@ (<<"c3", "a9">> :> "U+77C7") @@ (<<"a9", "61">> :> "U+5944")
         @@ (<<"a9", "c3">> :> "U+6014") @@ (<<"a9", "a9">> :> "U+5E18")
    [] encoding = "shift_jis" ->
         (<<"81", "61">> :> "U+2016") @@ (<<"81", "a9">> :> "U+2190")
         @@ (<<"81", "81">> :> "U+FF1D")
    [] encoding = "cp932" ->
         (<<"81", "61">> :> "U+2225") @@ (<<"81", "a9">> :> "U+2190")
         @@ (<<"81", "81">> :> "U+FF1D")
    [] OTHER -> [pair \in {} |-> ""]

\* a decoding: whether it succeeded, and the text
Decoded(text) == [ok |-> TRUE, text |-> text]
Undecodable == [ok |-> FALSE, text |-> <<>>]
Prepend(char, decoding) ==
  [ok |-> decoding.ok, text |-> <<char>> \o decoding.text]

\* filename.decode(encoding): UnicodeDecodeError is ok = FALSE
RECURSIVE Decode(_, _)
Decode(bytes, encoding) ==
  IF bytes = <<>> THEN Decoded(<<>>)
  ELSE IF bytes[1] \in DOMAIN SingleByte(encoding)
       THEN Prepend(SingleByte(encoding)[bytes[1]],
                    Decode(Tail(bytes), encoding))
  ELSE IF Len(bytes) >= 2
          /\ <<bytes[1], bytes[2]>> \in DOMAIN DoubleByte(encoding)
       THEN Prepend(DoubleByte(encoding)[<<bytes[1], bytes[2]>>],
                    Decode(SubSeq(bytes, 3, Len(bytes)), encoding))
  ELSE Undecodable

\* filename.decode('utf-8', errors='replace')
RECURSIVE DecodeReplace(_)
DecodeReplace(bytes) ==
  IF bytes = <<>> THEN <<>>
  ELSE IF bytes[1] \in DOMAIN ASCII
       THEN <<ASCII[bytes[1]]>> \o DecodeReplace(Tail(bytes))
  ELSE IF Len(bytes) >= 2
          /\ <<bytes[1], bytes[2]>> \in DOMAIN DoubleByte("utf-8")
       THEN <<DoubleByte("utf-8")[<<bytes[1], bytes[2]>>]>>
              \o DecodeReplace(SubSeq(bytes, 3, Len(bytes)))
  ELSE <<"U+FFFD">> \o DecodeReplace(Tail(bytes))

\* safe_filename, lines 42-50: the first encoding of ENCODING_ORDER that
\* decodes the bytes, else the decoding with replacement
RECURSIVE TryEncodings(_, _)
FirstDecoding(decoding, bytes, k) ==
  IF decoding.ok THEN decoding.text ELSE TryEncodings(bytes, k + 1)

TryEncodings(bytes, k) ==
  IF k > Len(ENCODING_ORDER) THEN DecodeReplace(bytes)
  ELSE FirstDecoding(Decode(bytes, ENCODING_ORDER[k]), bytes, k)

\* safe_filename on any argument [kind, val]: bytes are decoded first, and
\* the outer except turns what is neither text nor bytes into unnamed_file
SafeFilenameOf(arg, t) ==
  CASE arg.kind = "bytes" -> safe_filename(TryEncodings(arg.val, 1), t)
    [] arg.kind = "str" -> safe_filename(arg.val, t)
    [] OTHER -> UnnamedFile(t)

\* the extension taken from the last suffix alone
SuffixOnly(file_path) == Lower(Suffix(Name(file_path)))

\* get_file_extension: a compound extension first, else the lowered suffix
get_file_extension(file_path) ==
  LET file_str == Lower(PathStr(file_path))
      hits == {k \in 1..Len(COMPOUND_EXTENSIONS) :
                 EndsWith(file_str, COMPOUND_EXTENSIONS[k])}
  IN  IF hits # {}
      THEN COMPOUND_EXTENSIONS[CHOOSE k \in hits : \A j \in hits : k <= j]
      ELSE Lower(Suffix(Name(file_path)))

\* is_safe_path
is_safe_path(file_path) ==
  /\ ~ StartsWith(file_path, <<"/">>)
  /\ ~ Contains(file_path, <<".", ".">>)
  /\ \A k \in 1..Len(file_path) :
       file_path[k] \notin {"\\", ":", "*", "?", "\"", "<", ">", "|"}

\* ---------------------------------------------------------------- the tree
\* a tree is [files |-> function from paths to contents, dirs |-> set of paths]
Exists(fs, p) == p \in DOMAIN fs.files \/ p \in fs.dirs

Prefixes(p) == {SubSeq(p, 1, k) : k \in 0..Len(p)}

\* Path.mkdir(parents=True, exist_ok=True): raises, creating nothing, when
\* the path or one of its ancestors is a file
MkdirRaises(fs, d) == \E q \in Prefixes(d) : q \in DOMAIN fs.files

\* ensure_directory_exists: the exception is swallowed
ensure_directory_exists(fs, d) ==
  IF MkdirRaises(fs, d) THEN fs
  ELSE [fs EXCEPT !.dirs = @ \cup Prefixes(d)]

\* open(target, 'wb') raises when the parent is no directory or the target
\* is a directory
OpenRaises(fs, target) ==
  \/ Parent(target) \notin fs.dirs
  \/ target \in fs.dirs

\* open(target, 'wb') followed by copyfileobj: the file is created or replaced
WriteFile(fs, target, content) ==
  [fs EXCEPT !.files = (target :> content) @@ fs.files]

\* Path.unlink / the source side of shutil.move
RemoveFile(fs, p) ==
  [fs EXCEPT !.files = [q \in DOMAIN fs.files \ {p} |-> fs.files[q]]]

CONFLICT_LIMIT == 9999

\* new_path of avoid_filename_conflict: the suffix goes between the two
\* parts of os.path.splitext(target_path.name)
NewPath(target_path, suffix) ==
  Parent(target_path)
    \o <<SplitExt(Name(target_path))[1] \o <<"_">> \o suffix
           \o SplitExt(Name(target_path))[2]>>

\* the counters the while loop of avoid_filename_conflict tests before it
\* gives up: counter > 9999 is tested after counter += 1
Counters == 1..CONFLICT_LIMIT

Taken(fs, target_path, counter) ==
  Exists(fs, NewPath(target_path, Decimal(counter)))

\* the while loop of avoid_filename_conflict, the clock reading t at the
\* fallback: the first counter whose new_path does not exist, else the
\* timestamp, which is returned without a look at the tree
ConflictLoop(fs, target_path, t) ==
  IF \E counter \in Counters : ~ Taken(fs, target_path, counter)
  THEN NewPath(target_path,
         Decimal(CHOOSE counter \in Counters :
                   /\ ~ Taken(fs, target_path, counter)
                   /\ \A earlier \in 1..(counter - 1) :
                        Taken(fs, target_path, earlier)))
  ELSE NewPath(target_path, Decimal(t))

avoid_filename_conflict(fs, target_path, t) ==
  IF ~ Exists(fs, target_path) THEN target_path
  ELSE ConflictLoop(fs, target_path, t)

\* ------------------------------------------------------------ extractors.py
\* A content is [fmt, size, password, members]; fmt is "DATA" for a plain
\* file.  A member is [name, is_dir, bad, content]; bad says that opening the
\* member's stream raises.  An extraction in progress is
\* [fs, count, targets]: the tree, extracted_count and, per member handled,
\* the path written for it (NoTarget when nothing was written).
NoTarget == [written |-> FALSE, path |-> <<>>]
Target(p) == [written |-> TRUE, path |-> p]

Skipped(acc, fs) ==
  [fs |-> fs, count |-> acc.count, targets |-> Append(acc.targets, NoTarget)]

Counted(acc, fs, tgt) ==
  [fs |-> fs, count |-> acc.count + 1, targets |-> Append(acc.targets, tgt)]

\* the pieces of a member name that are not empty
NonEmptyParts(name) == SelectSeq(Split(name, "/"), LAMBDA part : part # <<>>)

\* the inline check of TarExtractor's structured extract_single_tar
TarNameRefused(name) ==
  StartsWith(name, <<"/">>) \/ Contains(name, <<".", ".">>)

\* the with statement of extract_single_zip/_rar/_tar on the tree made, and
\* what the loop around it does: a member whose open or copy raises is logged
\* and left out of extracted_count
CopyOrSkip(m, acc, made, target_path) ==
  IF m.bad \/ OpenRaises(made, target_path) THEN Skipped(acc, made)
  ELSE Counted(acc, WriteFile(made, target_path, m.content),
               Target(target_path))

\* extract_func(member, final_path) for a file member:
\* ensure_directory_exists(target_path.parent), then the with statement
extract_single(m, acc, target_path) ==
  CopyOrSkip(m, acc, ensure_directory_exists(acc.fs, Parent(target_path)),
             target_path)

\* the parts of the member name joined as they are
RawPathParts(path_parts, t) == path_parts

\* safe_path_parts = [safe_filename(part) for part in path_parts]
SafePathParts(path_parts, t) ==
  [k \in 1..Len(path_parts) |-> safe_filename(path_parts[k], t)]

\* extract_files_with_structure once safe_path_parts is known
StructPlace(variant, m, extract_to, acc, safe_path_parts) ==
  IF safe_path_parts = <<>> THEN Skipped(acc, acc.fs)
  ELSE IF variant = "TAR" /\ (TarNameRefused(m.name) \/ m.is_dir)
       THEN Counted(acc, acc.fs, NoTarget)
  ELSE IF m.is_dir
       THEN Counted(acc,
                    ensure_directory_exists(
                      acc.fs, Parent(extract_to \o safe_path_parts)),
                    NoTarget)
  ELSE extract_single(m, acc, extract_to \o safe_path_parts)

\* one iteration of extract_files_with_structure, with the extract_func of
\* the ZIP, RAR or TAR variant
StructMember(variant, m, extract_to, t, acc) ==
  StructPlace(variant, m, extract_to, acc,
              SafePathParts(NonEmptyParts(m.name), t))

RECURSIVE extract_files_with_structure(_, _, _, _, _, _)
extract_files_with_structure(variant, members, extract_to, t, k, acc) ==
  IF k > Len(members) THEN acc
  ELSE extract_files_with_structure(variant, members, extract_to, t, k + 1,
         StructMember(variant, members[k], extract_to, t, acc))

\* one iteration of extract_files_flat, with the extract_func of the ZIP,
\* RAR or TAR variant
FlatMember(variant, m, extract_to, t, acc) ==
  IF m.is_dir \/ Basename(m.name) = <<>> THEN Skipped(acc, acc.fs)
  ELSE extract_single(m, acc,
         avoid_filename_conflict(
           acc.fs, extract_to \o <<safe_filename(Basename(m.name), t)>>, t))

RECURSIVE extract_files_flat(_, _, _, _, _, _)
extract_files_flat(variant, members, extract_to, t, k, acc) ==
  IF k > Len(members) THEN acc
  ELSE extract_files_flat(variant, members, extract_to, t, k + 1,
         FlatMember(variant, members[k], extract_to, t, acc))

\* The 7Z loops have no per-member try: a run of them is
\* [fs, count, targets, raised] and stops at the first member that raises.
\* py7zr writes a member below the given directory under its own name.
SevenZipSkip(acc) ==
  [fs |-> acc.fs, count |-> acc.count,
   targets |-> Append(acc.targets, NoTarget), raised |-> FALSE]

SevenZipStop(acc, fs) ==
  [fs |-> fs, count |-> acc.count,
   targets |-> Append(acc.targets, NoTarget), raised |-> TRUE]

SevenZipDone(acc, fs, tgt) ==
  [fs |-> fs, count |-> acc.count + 1,
   targets |-> Append(acc.targets, tgt), raised |-> FALSE]

\* shutil.move(extracted_file, final_path), guarded by extracted_file !=
\* final_path
MoveFile(fs, extracted_file, final_path, content) ==
  IF extracted_file # final_path
  THEN WriteFile(RemoveFile(fs, extracted_file), final_path, content)
  ELSE fs

\* z.extract(path=final_path.parent, targets=[file_info.filename]) on the
\* tree made, then the move
SevenZipFlatWrite(m, acc, made, extracted_file, final_path) ==
  IF m.bad \/ OpenRaises(made, extracted_file) THEN SevenZipStop(acc, made)
  ELSE SevenZipDone(acc,
         MoveFile(WriteFile(made, extracted_file, m.content), extracted_file,
                  final_path, m.content),
         Target(final_path))

\* ensure_directory_exists(final_path.parent); py7zr makes the directories
\* of extracted_file
SevenZipFlatInto(m, acc, extracted_file, final_path) ==
  SevenZipFlatWrite(m, acc,
    ensure_directory_exists(
      ensure_directory_exists(acc.fs, Parent(final_path)),
      Parent(extracted_file)),
    extracted_file, final_path)

\* extracted_file = final_path.parent / file_info.filename
SevenZipFlatPlace(m, acc, final_path) ==
  SevenZipFlatInto(m, acc, Parent(final_path) \o NonEmptyParts(m.name),
                   final_path)

\* one iteration of SevenZipExtractor.extract_flat
SevenZipFlatMember(m, extract_to, t, acc) ==
  IF m.is_dir \/ Basename(m.name) = <<>> THEN SevenZipSkip(acc)
  ELSE SevenZipFlatPlace(m, acc,
         avoid_filename_conflict(
           acc.fs, extract_to \o <<safe_filename(Basename(m.name), t)>>, t))

RECURSIVE SevenZipFlatLoop(_, _, _, _, _)
SevenZipFlatLoop(members, extract_to, t, k, acc) ==
  IF k > Len(members) \/ acc.raised THEN acc
  ELSE SevenZipFlatLoop(members, extract_to, t, k + 1,
         SevenZipFlatMember(members[k], extract_to, t, acc))

\* z.extractall(extract_to) for one member written at target
SevenZipAllWrite(m, acc, made, target) ==
  IF m.bad \/ OpenRaises(made, target) THEN SevenZipStop(acc, made)
  ELSE SevenZipDone(acc, WriteFile(made, target, m.content), Target(target))

SevenZipAllPlace(m, acc, target) ==
  IF m.is_dir
  THEN SevenZipSkip([acc EXCEPT !.fs = ensure_directory_exists(@, target)])
  ELSE SevenZipAllWrite(m, acc,
                        ensure_directory_exists(acc.fs, Parent(target)),
                        target)

\* z.extractall(extract_to), member by member
SevenZipAllMember(m, extract_to, acc) ==
  SevenZipAllPlace(m, acc, extract_to \o NonEmptyParts(m.name))

RECURSIVE SevenZipAllLoop(_, _, _, _)
SevenZipAllLoop(members, extract_to, k, acc) ==
  IF k > Len(members) \/ acc.raised THEN acc
  ELSE SevenZipAllLoop(members, extract_to, k + 1,
         SevenZipAllMember(members[k], extract_to, acc))

\* The result of an extract call: [fs, count, targets, raised].
Raise(fs) == [fs |-> fs, count |-> 0, targets |-> <<>>, raised |-> TRUE]

Start(fs) == [fs |-> fs, count |-> 0, targets |-> <<>>]

Returned(acc) ==
  [fs |-> acc.fs, count |-> acc.count, targets |-> acc.targets,
   raised |-> FALSE]

\* the skeleton shared by ZipExtractor, RarExtractor and TarExtractor
SkeletonExtract(variant, content, fs, extract_to, flat, t) ==
  IF flat
  THEN Returned(extract_files_flat(variant, content.members, extract_to, t,
                                   1, Start(fs)))
  ELSE Returned(extract_files_with_structure(variant, content.members,
                                             extract_to, t, 1, Start(fs)))

\* ZipExtractor.extract without the testzip call before the members
ZipExtractUntested(content, fs, extract_to, flat, t) ==
  IF content.fmt # "ZIP" THEN Raise(fs)
  ELSE SkeletonExtract("ZIP", content, fs, extract_to, flat, t)

\* ZipExtractor.extract: BadZipFile, then the password test, then the members
ZipExtract(content, fs, extract_to, flat, t) ==
  IF content.fmt # "ZIP" \/ content.password THEN Raise(fs)
  ELSE SkeletonExtract("ZIP", content, fs, extract_to, flat, t)

\* RarExtractor.extract
RarExtract(content, fs, extract_to, flat, t, rar_available) ==
  IF ~ rar_available \/ content.fmt # "RAR" \/ content.password
  THEN Raise(fs)
  ELSE SkeletonExtract("RAR", content, fs, extract_to, flat, t)

\* SevenZipExtractor.extract: an exception escapes and nothing is counted
SevenZipResult(run) == IF run.raised THEN [run EXCEPT !.count = 0] ELSE run

SevenZipStart(fs) ==
  [fs |-> fs, count |-> 0, targets |-> <<>>, raised |-> FALSE]

\* SevenZipExtractor.extract
SevenZipExtract(content, fs, extract_to, flat, t, sevenz_available) ==
  IF ~ sevenz_available \/ content.fmt # "7Z" \/ content.password
  THEN Raise(fs)
  ELSE SevenZipResult(
         IF flat
         THEN SevenZipFlatLoop(content.members, extract_to, t, 1,
                               SevenZipStart(fs))
         ELSE SevenZipAllLoop(content.members, extract_to, 1,
                              SevenZipStart(fs)))

\* TarExtractor.extract
TarExtract(content, fs, extract_to, flat, t) ==
  IF content.fmt # "TAR" THEN Raise(fs)
  ELSE SkeletonExtract("TAR", content, fs, extract_to, flat, t)

\* get_extractor without the entries for .tgz, .tbz2 and .txz
ExtractorWithoutShortNames(file_extension) ==
  CASE file_extension = EXT_ZIP -> "ZIP"
    [] file_extension = EXT_RAR -> "RAR"
    [] file_extension = EXT_7Z -> "7Z"
    [] file_extension \in {EXT_TAR, EXT_TAR_GZ, EXT_TAR_BZ2, EXT_TAR_XZ} ->
         "TAR"
    [] OTHER -> "NONE"

\* get_extractor: the variant for an extension, "NONE" for the ValueError
get_extractor(file_extension) ==
  CASE file_extension = EXT_ZIP -> "ZIP"
    [] file_extension = EXT_RAR -> "RAR"
    [] file_extension = EXT_7Z -> "7Z"
    [] file_extension \in {EXT_TAR, EXT_TAR_GZ, EXT_TGZ, EXT_TAR_BZ2,
                           EXT_TBZ2, EXT_TAR_XZ, EXT_TXZ} -> "TAR"
    [] OTHER -> "NONE"

\* extractor.extract(archive_path, extract_to, extract_flat)
Extract(variant, content, fs, extract_to, flat, t, rar, sevenz) ==
  CASE variant = "ZIP" -> ZipExtract(content, fs, extract_to, flat, t)
    [] variant = "RAR" -> RarExtract(content, fs, extract_to, flat, t, rar)
    [] variant = "7Z" ->
         SevenZipExtract(content, fs, extract_to, flat, t, sevenz)
    [] variant = "TAR" -> TarExtract(content, fs, extract_to, flat, t)
    [] OTHER -> Raise(fs)

\* What an extract call raises before it reads the member list, by the
\* message of the exception: "unsupported" (the library is not installed),
\* "corrupt" (BadZipFile, BadRarFile, Bad7zFile, TarError), "password" (the
\* message about password protection), "none" when the members are reached.
OpenFailure(variant, content, rar, sevenz) ==
  IF variant = "RAR" /\ ~ rar THEN "unsupported"
  ELSE IF variant = "7Z" /\ ~ sevenz THEN "unsupported"
  ELSE IF content.fmt # variant THEN "corrupt"
  ELSE IF variant \in {"ZIP", "RAR", "7Z"} /\ content.password
       THEN "password"
  ELSE "none"

\* ------------------------------------------------------------------ inputs
Data == [fmt |-> "DATA", size |-> 1, password |-> FALSE, members |-> <<>>]

File(name, content) ==
  [name |-> name, is_dir |-> FALSE, bad |-> FALSE, content |-> content]

Dir(name) ==
  [name |-> name, is_dir |-> TRUE, bad |-> FALSE, content |-> Data]

BadFile(name) ==
  [name |-> name, is_dir |-> FALSE, bad |-> TRUE, content |-> Data]

Archive(fmt, size, members) ==
  [fmt |-> fmt, size |-> size, password |-> FALSE, members |-> members]

Locked(fmt, size) ==
  [fmt |-> fmt, size |-> size, password |-> TRUE,
   members |-> <<File(<<"x">>, Data)>>]

O_ZIP == <<"o", ".", "z", "i", "p">>
I_TAR_GZ == <<"i", ".", "t", "a", "r", ".", "g", "z">>
D_TXT == <<"d", ".", "t", "x", "t">>
A_ZIP == <<"a", ".", "z", "i", "p">>
B_ZIP == <<"b", ".", "z", "i", "p">>
S_ZIP == <<"s", ".", "z", "i", "p">>
Z_ZIP == <<"z", ".", "z", "i", "p">>
R_RAR == <<"r", ".", "r", "a", "r">>
S_7Z == <<"s", ".", "7", "z">>
T_TGZ == <<"t", ".", "t", "g", "z">>
U_ZIP == <<"u", ".", "z", "i", "p">>
U_TAR == <<"u", ".", "t", "a", "r">>
B_ZIP_UPPER == <<"B", ".", "Z", "I", "P">>
C_ZIP == <<"c", ".", "z", "i", "p">>
N_TXT == <<"n", ".", "t", "x", "t">>
P_ZIP == <<"p", ".", "z", "i", "p">>
X_ZIP == <<"x", ".", "z", "i", "p">>
Y_ZIP == <<"y", ".", "z", "i", "p">>
Q_7Z == <<"q", ".", "7", "z">>

\* a member that fails and a member that extracts
OneBadOneGood == <<BadFile(<<"x">>), File(<<"y">>, Data)>>

\* a traversal name, an absolute name and a plain name
UnsafeMembers ==
  <<File(<<".", ".", "/", "e">>, Data), File(<<"/", "r">>, Data),
    File(<<"k">>, Data)>>

TreeNames ==
  {"nested", "mixed", "allbad", "bad_zip", "bad_rar", "bad_7z", "bad_tar",
   "unsafe_zip", "unsafe_tar", "upper", "secret", "with_dir", "again",
   "partial", "spoiled", "plain"}

\* the files of each input tree; in "again" the folder x already holds a
\* y.zip, and x.zip holds another y.zip; in "spoiled" the folder x holds a
\* good p.zip and z/x.zip holds a p.zip that is no archive
TreeFiles(tree) ==
  CASE tree = "nested" ->
         (<<O_ZIP>> :> Archive("ZIP", 3,
            <<File(I_TAR_GZ, Archive("TAR", 2, <<File(D_TXT, Data)>>))>>))
    [] tree = "mixed" ->
         (<<A_ZIP>> :> Archive("ZIP", 3,
            <<File(B_ZIP, Archive("ZIP", 2, <<File(<<"f">>, Data)>>))>>))
         @@ (<<S_ZIP>> :> Locked("ZIP", 2))
    [] tree = "allbad" ->
         (<<Z_ZIP>> :> Archive("ZIP", 2, <<BadFile(<<"x">>)>>))
    [] tree = "bad_zip" -> (<<Z_ZIP>> :> Archive("ZIP", 2, OneBadOneGood))
    [] tree = "bad_rar" -> (<<R_RAR>> :> Archive("RAR", 2, OneBadOneGood))
    [] tree = "bad_7z" -> (<<S_7Z>> :> Archive("7Z", 2, OneBadOneGood))
    [] tree = "bad_tar" -> (<<T_TGZ>> :> Archive("TAR", 2, OneBadOneGood))
    [] tree = "unsafe_zip" -> (<<U_ZIP>> :> Archive("ZIP", 2, UnsafeMembers))
    [] tree = "unsafe_tar" -> (<<U_TAR>> :> Archive("TAR", 2, UnsafeMembers))
    [] tree = "upper" ->
         (<<B_ZIP_UPPER>> :> Archive("ZIP", 2, <<File(<<"f">>, Data)>>))
         @@ (<<C_ZIP>> :> Data)
    [] tree = "secret" -> (<<S_ZIP>> :> Locked("ZIP", 2))
    [] tree = "with_dir" ->
         (<<P_ZIP>> :> Archive("ZIP", 2,
            <<Dir(<<"d", "/">>), File(<<"d", "/", "a">>, Data)>>))
    [] tree = "again" ->
         (<<X_ZIP>> :> Archive("ZIP", 3,
            <<File(Y_ZIP, Archive("ZIP", 2, <<File(<<"n">>, Data)>>))>>))
         @@ (<<<<"x">>, Y_ZIP>> :> Archive("ZIP", 1, <<File(<<"o">>, Data)>>))
    [] tree = "partial" ->
         (<<Q_7Z>> :> Archive("7Z", 3,
            <<File(B_ZIP, Archive("ZIP", 2, <<File(<<"f">>, Data)>>)),
              BadFile(<<"x">>)>>))
    [] tree = "spoiled" ->
         (<<<<"z">>, X_ZIP>> :> Archive("ZIP", 3, <<File(P_ZIP, Data)>>))
         @@ (<<<<"x">>, P_ZIP>> :> Archive("ZIP", 2, <<File(<<"f">>, Data)>>))
    [] OTHER -> (<<N_TXT>> :> Data)

InitialTree(tree) ==
  [files |-> TreeFiles(tree),
   dirs |-> UNION {Prefixes(Parent(p)) : p \in DOMAIN TreeFiles(tree)}]

\* ------------------------------------------------------------------ main.py
VARIABLES
  tree,                \* the name of the input tree (never changes)
  work_dir_kind,       \* "dir", "missing" or "file"
  create_backup, delete_original, preserve_structure, extract_flat,
  RAR_AVAILABLE, SEVENZ_AVAILABLE,
  fs,                  \* the tree below work_dir
  stats,               \* self.stats
  pc,                  \* the position in run / process_all_files
  backup,              \* "none", "ok" or "failed": create_backup_copy
  round_count, compressed_files, idx,
  round_start_success, round_start_error,
  returned,            \* what run returned: "none", "true" or "false"
  exit_reason,         \* which return or break ended the run
  last,                \* the latest call of extract_single_file
  failures,            \* per archive path, how often its extraction failed
  succeeded,           \* the archive paths extracted with success so far
  del_failures,        \* how many unlink calls failed
  util                 \* the latest call of a function taken alone

config ==
  <<tree, work_dir_kind, create_backup, delete_original, preserve_structure,
    extract_flat, RAR_AVAILABLE, SEVENZ_AVAILABLE>>

round_vars ==
  <<round_count, compressed_files, idx, round_start_success,
    round_start_error>>

run_vars ==
  <<config, fs, stats, pc, backup, round_vars, returned, exit_reason, last,
    failures, succeeded, del_failures>>

vars == <<run_vars, util>>

Times == 0..MaxTime

NoUtil == [fn |-> "none"]

NoCall ==
  [path |-> <<>>, content |-> Data, variant |-> "NONE", flat |-> FALSE,
   outcome |-> "none", count |-> 0, targets |-> <<>>, deleted |-> FALSE,
   round |-> 0]

HasFormat(t, fmt) ==
  \E p \in DOMAIN TreeFiles(t) : TreeFiles(t)[p].fmt = fmt

HasNested(t) ==
  \E p \in DOMAIN TreeFiles(t) :
    \E k \in 1..Len(TreeFiles(t)[p].members) :
      get_file_extension(<<Basename(TreeFiles(t)[p].members[k].name)>>)
        \in SUPPORTED_EXTENSIONS

Init ==
  /\ tree \in TreeNames
  /\ work_dir_kind \in {"dir", "missing", "file"}
  /\ create_backup \in BOOLEAN
  /\ delete_original \in BOOLEAN
  /\ preserve_structure \in BOOLEAN
  /\ extract_flat \in BOOLEAN
  /\ RAR_AVAILABLE \in BOOLEAN
  /\ SEVENZ_AVAILABLE \in BOOLEAN
  \* the optional libraries only matter to a tree that holds their format
  /\ HasFormat(tree, "RAR") \/ RAR_AVAILABLE
  /\ HasFormat(tree, "7Z") \/ SEVENZ_AVAILABLE
  /\ work_dir_kind # "dir" =>
       tree = "plain" /\ ~ preserve_structure /\ ~ extract_flat
  \* flat extraction that keeps the originals writes every nested archive
  \* again under a new name in each round: the inputs leave that growth out
  /\ (extract_flat /\ ~ delete_original) => ~ HasNested(tree)
  /\ fs = InitialTree(tree)
  /\ stats = [f \in STATS_FIELDS |-> 0]
  /\ pc = "run"
  /\ backup = "none"
  /\ round_count = 0
  /\ compressed_files = <<>>
  /\ idx = 0
  /\ round_start_success = 0
  /\ round_start_error = 0
  /\ returned = "none"
  /\ exit_reason = "none"
  /\ last = NoCall
  /\ failures = << >>
  /\ succeeded = {}
  /\ del_failures = 0
  /\ util = NoUtil

\* run reporting success whatever ended it
ReturnTrue(value, reason) ==
  /\ pc' = "done"
  /\ returned' = "true"
  /\ exit_reason' = reason

\* return from run
Return(value, reason) ==
  /\ pc' = "done"
  /\ returned' = value
  /\ exit_reason' = reason

\* run, lines 281-294: the checks of the working directory
CheckWorkDir ==
  /\ pc = "run"
  /\ IF work_dir_kind = "missing" THEN Return("false", "no_dir")
     ELSE IF work_dir_kind = "file" THEN Return("false", "not_dir")
     ELSE /\ pc' = IF create_backup THEN "backup" ELSE "initial_scan"
          /\ UNCHANGED <<returned, exit_reason>>
  /\ UNCHANGED <<util, config, fs, stats, backup, round_vars, last, failures,
                 succeeded, del_failures>>

\* the result of create_backup_copy not looked at
BackupIgnored(copied) == FALSE

\* run, line 292: a backup that was not made ends the run
BackupFatal(copied) == ~ copied

\* create_backup_copy called from run: copytree succeeds or raises
CreateBackup ==
  /\ pc = "backup"
  /\ \E copied \in BOOLEAN :
       /\ backup' = IF copied THEN "ok" ELSE "failed"
       /\ IF BackupFatal(copied) THEN Return("false", "backup_failed")
          ELSE /\ pc' = "initial_scan"
               /\ UNCHANGED <<returned, exit_reason>>
  /\ UNCHANGED <<util, config, fs, stats, round_vars, last, failures,
                 succeeded, del_failures>>

\* the files a walk of work_dir finds with a supported extension
ScanSet(tree_now) ==
  {p \in DOMAIN tree_now.files :
     get_file_extension(p) \in SUPPORTED_EXTENSIONS}

\* The characters of the model, in code point order.
ALPHABET ==
  <<" ", "\"", "*", ".", "/", "0", "1", "2", "3", "4", "5", "6", "7", "8",
    "9", ":", "<", ">", "?", "B", "I", "P", "Z", "\\", "_", "a", "b", "c",
    "d", "e", "f", "g", "i", "k", "l", "m", "n", "o", "p", "r", "s", "t",
    "u", "x", "y", "z", "|", "U+00E9", "U+0301">>

CharRank(c) == CHOOSE k \in 1..Len(ALPHABET) : ALPHABET[k] = c

\* s1 < s2 for two strings
LexLess(s1, s2) ==
  \/ Len(s1) < Len(s2) /\ SubSeq(s2, 1, Len(s1)) = s1
  \/ \E k \in 1..Len(s1) :
       /\ k <= Len(s2)
       /\ SubSeq(s1, 1, k - 1) = SubSeq(s2, 1, k - 1)
       /\ CharRank(s1[k]) < CharRank(s2[k])

\* The order in which a directory lists its entries is the file system's:
\* the model takes the two orders by name, ascending and descending.
NameBefore(a, b, descending) ==
  IF descending THEN LexLess(b, a) ELSE LexLess(a, b)

\* os.walk is top-down: a directory is visited before the directories below
\* it, and a whole subtree before the next sibling
DirBefore(d1, d2, descending) ==
  \/ Len(d1) < Len(d2) /\ SubSeq(d2, 1, Len(d1)) = d1
  \/ \E k \in 1..Len(d1) :
       /\ k <= Len(d2)
       /\ SubSeq(d1, 1, k - 1) = SubSeq(d2, 1, k - 1)
       /\ d1[k] # d2[k]
       /\ NameBefore(d1[k], d2[k], descending)

WalkBefore(p, q, descending) ==
  IF Parent(p) = Parent(q)
  THEN NameBefore(Name(p), Name(q), descending)
  ELSE DirBefore(Parent(p), Parent(q), descending)

RECURSIVE WalkSeq(_, _)
WalkSeq(found, descending) ==
  IF found = {} THEN <<>>
  ELSE LET first == CHOOSE p \in found :
                      \A q \in found \ {p} : WalkBefore(p, q, descending)
       IN  <<first>> \o WalkSeq(found \ {first}, descending)

\* scan_compressed_files_current_round: (file_path, file_size) in walk order
ScanResults(tree_now) ==
  {[k \in 1..Cardinality(ScanSet(tree_now)) |->
      <<WalkSeq(ScanSet(tree_now), descending)[k],
        tree_now.files[WalkSeq(ScanSet(tree_now), descending)[k]].size>>] :
     descending \in BOOLEAN}

\* run, lines 296-304: scan_compressed_files, then process_all_files starts
InitialScan ==
  /\ pc = "initial_scan"
  /\ IF ScanSet(fs) = {} THEN Return("true", "no_archives")
     ELSE /\ pc' = "scan"
          /\ UNCHANGED <<returned, exit_reason>>
  /\ UNCHANGED <<util, config, fs, stats, backup, round_vars, last, failures,
                 succeeded, del_failures>>

\* process_all_files, lines 214-228: the top of the while loop
RoundScan ==
  /\ pc = "scan"
  /\ round_count' = round_count + 1
  /\ \E found \in ScanResults(fs) :
       /\ compressed_files' = found
       /\ IF found = <<>>
          THEN /\ Return("true", "empty")
               /\ UNCHANGED <<idx, round_start_success, round_start_error>>
          ELSE /\ pc' = "extract"
               /\ idx' = 1
               /\ round_start_success' = stats.success
               /\ round_start_error' = stats.error
               /\ UNCHANGED <<returned, exit_reason>>
  /\ UNCHANGED <<util, config, fs, stats, backup, last, failures, succeeded,
                 del_failures>>

\* get_extraction_path
get_extraction_path(archive_path, preserve) ==
  IF preserve THEN Parent(archive_path) \o <<Stem(Name(archive_path))>>
  ELSE <<Stem(Name(archive_path))>>

\* the try block of extract_single_file on the tree tree_now, reading only
\* the first upto members: [fs, count, targets, raised]
TryExtract(tree_now, archive_path, upto, t) ==
  LET extract_to == get_extraction_path(archive_path, preserve_structure)
      file_ext == get_file_extension(archive_path)
      made == ensure_directory_exists(tree_now, extract_to)
      content == made.files[archive_path]
      read == [content EXCEPT !.members = SubSeq(@, 1, upto)]
  IN  IF archive_path \notin DOMAIN made.files THEN Raise(made)
      ELSE Extract(get_extractor(file_ext), read, made, extract_to,
                   extract_flat, t, RAR_AVAILABLE, SEVENZ_AVAILABLE)

MembersAt(tree_now, p) ==
  IF p \in DOMAIN tree_now.files THEN tree_now.files[p].members ELSE <<>>

ContentAt(tree_now, p) ==
  IF p \in DOMAIN tree_now.files THEN tree_now.files[p] ELSE Data

Bump(f, p) == (p :> (IF p \in DOMAIN f THEN f[p] + 1 ELSE 1)) @@ f

\* what the for loop does after extract_single_file returned
NextInRound ==
  /\ idx' = idx + 1
  /\ pc' = IF idx < Len(compressed_files) THEN "extract" ELSE "round_end"

\* the deletion decided by the flag alone, whatever the extraction did
ShouldDeleteAlways(extraction_success, delete_flag) == delete_flag

\* the deletion decided by the success alone, whatever the flag says
ShouldDeleteUnasked(extraction_success, delete_flag) == extraction_success

\* extract_single_file, line 188: whether the original is to be deleted
ShouldDelete(extraction_success, delete_flag) ==
  extraction_success /\ delete_flag

\* extract_single_file, lines 175-185: the counters after the try block
Counted_stats(st, raised, extracted_count) ==
  IF raised
  THEN [st EXCEPT !.error = @ + 1, !.processed = @ + 1]
  ELSE [st EXCEPT !.success = @ + 1,
                  !.extracted_files = @ + extracted_count,
                  !.processed = @ + 1]

\* what is remembered of a call of extract_single_file
Call(archive_path, outcome, count, targets) ==
  [path |-> archive_path, content |-> ContentAt(fs, archive_path),
   variant |-> get_extractor(get_file_extension(archive_path)),
   flat |-> extract_flat, outcome |-> outcome, count |-> count,
   targets |-> targets, deleted |-> FALSE, round |-> round_count]

\* the finally block adding the size to freed_size before it tries to unlink
FinallyFreedFirst(archive_path, archive_size, r, counted, call) ==
  IF ShouldDelete(~ r.raised, delete_original)
     /\ archive_path \in DOMAIN r.fs.files
  THEN \E unlinked \in BOOLEAN :
         /\ stats' = [counted EXCEPT !.freed_size = @ + archive_size]
         /\ IF unlinked
            THEN /\ fs' = RemoveFile(r.fs, archive_path)
                 /\ last' = [call EXCEPT !.deleted = TRUE]
                 /\ UNCHANGED del_failures
            ELSE /\ del_failures < MaxDeleteFailures
                 /\ del_failures' = del_failures + 1
                 /\ fs' = r.fs
                 /\ last' = call
  ELSE /\ fs' = r.fs
       /\ stats' = counted
       /\ last' = call
       /\ UNCHANGED del_failures

\* extract_single_file, lines 187-197: the finally block after a try block
\* that ended with r and the counters counted
Finally(archive_path, archive_size, r, counted, call) ==
  IF ShouldDelete(~ r.raised, delete_original)
     /\ archive_path \in DOMAIN r.fs.files
  THEN \E unlinked \in BOOLEAN :
         IF unlinked
         THEN /\ fs' = RemoveFile(r.fs, archive_path)
              /\ stats' = [counted EXCEPT !.freed_size = @ + archive_size]
              /\ last' = [call EXCEPT !.deleted = TRUE]
              /\ UNCHANGED del_failures
         ELSE /\ del_failures < MaxDeleteFailures
              /\ del_failures' = del_failures + 1
              /\ fs' = r.fs
              /\ stats' = counted
              /\ last' = call
  ELSE /\ fs' = r.fs
       /\ stats' = counted
       /\ last' = call
       /\ UNCHANGED del_failures

\* extract_single_file for compressed_files[idx], called from the for loop
ExtractSingleFile ==
  /\ pc = "extract"
  /\ \E archive_path \in {compressed_files[idx][1]}, t \in Times :
       \E r \in {TryExtract(fs, archive_path,
                            Len(MembersAt(fs, archive_path)), t)} :
         /\ failures' = IF r.raised THEN Bump(failures, archive_path)
                        ELSE failures
         /\ succeeded' = IF r.raised THEN succeeded
                         ELSE succeeded \cup {archive_path}
         /\ Finally(archive_path, compressed_files[idx][2], r,
                    Counted_stats(stats, r.raised, r.count),
                    Call(archive_path,
                         IF r.raised THEN "failed" ELSE "success",
                         r.count, r.targets))
  /\ NextInRound
  /\ UNCHANGED <<util, config, backup, round_count, compressed_files,
                 round_start_success, round_start_error, returned,
                 exit_reason>>

\* extract_single_file when KeyboardInterrupt is raised inside
\* extractor.extract after upto members: except Exception does not catch it,
\* the finally block runs, and run returns False
ExtractInterrupted ==
  /\ pc = "extract"
  /\ \E archive_path \in {compressed_files[idx][1]}, t \in Times :
       \E upto \in 0..Len(MembersAt(fs, archive_path)) :
         \E r \in {TryExtract(fs, archive_path, upto, t)} :
           /\ fs' = r.fs
           /\ last' = Call(archive_path, "interrupted", 0, r.targets)
  /\ stats' = [stats EXCEPT !.processed = @ + 1]
  /\ Return("false", "interrupt")
  /\ UNCHANGED <<util, config, backup, round_vars, failures, succeeded,
                 del_failures>>

\* the stall test left out: a round without a success is followed by a scan
StallIgnored(round_success) == FALSE

\* process_all_files, line 244: the stall test
StallDetected(round_success) == round_success = 0

\* the round cap left out
CapIgnored(rounds) == FALSE

\* process_all_files, line 249: the round cap
CapReached(rounds) == rounds >= MAX_PROCESSING_ROUNDS

\* process_all_files, lines 237-251: the end of a round
RoundEnd ==
  /\ pc = "round_end"
  /\ LET round_success == stats.success - round_start_success
     IN  IF StallDetected(round_success) THEN Return("true", "stall")
         ELSE IF CapReached(round_count) THEN Return("true", "cap")
              ELSE /\ pc' = "scan"
                   /\ UNCHANGED <<returned, exit_reason>>
  /\ UNCHANGED <<util, config, fs, stats, backup, round_vars, last, failures,
                 succeeded, del_failures>>

Next ==
  \/ CheckWorkDir
  \/ CreateBackup
  \/ InitialScan
  \/ RoundScan
  \/ ExtractSingleFile
  \/ ExtractInterrupted
  \/ RoundEnd

Spec == Init /\ [][Next]_vars

\* ------------------------------------------------------------- properties
InLoop == pc \in {"scan", "extract", "round_end"}

ZeroStats == [f \in STATS_FIELDS |-> 0]

\* The rank of a position of run: the rounds not yet begun, then the phase
\* within the round, then the archives of the round not yet attempted.
Rank ==
  CASE pc = "run" -> <<MAX_PROCESSING_ROUNDS + 3, 0, 0>>
    [] pc = "backup" -> <<MAX_PROCESSING_ROUNDS + 2, 0, 0>>
    [] pc = "initial_scan" -> <<MAX_PROCESSING_ROUNDS + 1, 0, 0>>
    [] pc = "scan" -> <<MAX_PROCESSING_ROUNDS - round_count, 2, 0>>
    [] pc = "extract" ->
         <<MAX_PROCESSING_ROUNDS + 1 - round_count, 1,
           Len(compressed_files) + 1 - idx>>
    [] pc = "round_end" -> <<MAX_PROCESSING_ROUNDS + 1 - round_count, 0, 0>>
    [] OTHER -> <<0, 0, 0>>

RankLess(r1, r2) ==
  \/ r1[1] < r2[1]
  \/ r1[1] = r2[1] /\ r1[2] < r2[2]
  \/ r1[1] = r2[1] /\ r1[2] = r2[2] /\ r1[3] < r2[3]

\* C1: process_all_files terminates: every step of the run lowers a rank
\* that is never negative, the round count never passes
\* MAX_PROCESSING_ROUNDS, a round is followed by another one only after at
\* least one success and below the cap, and the loop is left by empty scan,
\* stall or cap under exactly that condition.
ProcessAllFilesTerminates ==
  [][/\ RankLess(Rank', Rank)
     /\ \A k \in 1..3 : Rank'[k] >= 0
     /\ round_count' <= MAX_PROCESSING_ROUNDS
     /\ (pc' = "done" /\ exit_reason' = "empty")
          => (pc = "scan" /\ compressed_files' = <<>>)
     /\ (pc' = "done" /\ exit_reason' = "stall")
          => (/\ pc = "round_end"
              /\ stats.success = round_start_success)
     /\ (pc' = "done" /\ exit_reason' = "cap")
          => (/\ pc = "round_end"
              /\ stats.success > round_start_success
              /\ round_count = MAX_PROCESSING_ROUNDS)
     /\ (pc = "round_end" /\ pc' = "scan")
          => (/\ stats.success > round_start_success
              /\ round_count < MAX_PROCESSING_ROUNDS)
     /\ (pc = "scan" /\ pc' = "extract") => compressed_files' # <<>>]_vars

\* a run that ended at the cap, after MAX_PROCESSING_ROUNDS rounds
EndedAtCap ==
  /\ pc = "done"
  /\ exit_reason = "cap"
  /\ round_count = MAX_PROCESSING_ROUNDS
  /\ stats.processed >= MAX_PROCESSING_ROUNDS

\* C2: stall rule: when a round that found archives ends without a success,
\* the next step ends the run in that same round, touching neither the tree
\* nor the counters, and nothing happens after the run has ended.
StallRule ==
  [][/\ (pc = "round_end" /\ compressed_files # <<>>
           /\ stats.success = round_start_success)
          => (/\ pc' = "done"
              /\ exit_reason' = "stall"
              /\ round_count' = round_count
              /\ fs' = fs
              /\ stats' = stats
              /\ last' = last)
     /\ pc # "done"]_vars

\* a run stopped by the stall rule in a round whose every attempt failed
StalledRun ==
  /\ pc = "done"
  /\ exit_reason = "stall"
  /\ compressed_files # <<>>
  /\ last.outcome = "failed"
  /\ last.round = round_count
  /\ stats.error - round_start_error = Len(compressed_files)

\* C3: processed = success + error in every state after the loop started.
ProcessedIsSuccessPlusError ==
  (InLoop \/ (pc = "done" /\ round_count > 0))
    => stats.processed = stats.success + stats.error

\* C4: the controller deletes an archive only in the call that extracted it
\* with success, and only with delete_original; a call that failed leaves
\* its archive as it was, adds one to error and nothing to success, and the
\* for loop moves to the next archive of the round.
DeleteOnlyAfterSuccess ==
  [][/\ (pc = "extract" /\ last'.deleted)
          => (/\ last'.outcome = "success"
              /\ delete_original
              /\ last'.path = compressed_files[idx][1])
     /\ \A p \in DOMAIN fs.files \ DOMAIN fs'.files :
          /\ pc = "extract"
          /\ last'.path = p
          /\ last'.deleted
     /\ (pc = "extract" /\ last'.outcome = "failed")
          => (/\ last'.path \in DOMAIN fs.files
                   => (/\ last'.path \in DOMAIN fs'.files
                       /\ fs'.files[last'.path] = fs.files[last'.path])
              /\ stats'.error = stats.error + 1
              /\ stats'.success = stats.success
              /\ stats'.processed = stats.processed + 1
              /\ idx' = idx + 1
              /\ pc' = IF idx < Len(compressed_files) THEN "extract"
                       ELSE "round_end")]_vars

\* a failed archive is still there while the loop is at the next archive of
\* the same round
FailedLeftInPlace ==
  /\ pc = "extract"
  /\ idx > 1
  /\ last.outcome = "failed"
  /\ last.path = compressed_files[idx - 1][1]
  /\ last.path \in DOMAIN fs.files
  /\ delete_original
  /\ failures[last.path] = 1

\* C5: the extraction of one archive fails at most once in a run.
FailedNeverRetried ==
  \A p \in DOMAIN failures : failures[p] <= 1

HasFileMember(content) ==
  \E k \in 1..Len(content.members) : ~ content.members[k].is_dir

NothingWritten(call) ==
  \A k \in 1..Len(call.targets) : ~ call.targets[k].written

\* C6: an archive with file members of which none was extracted is not
\* counted as a success and is not deleted.
NoSuccessWithoutExtraction ==
  (/\ last.outcome \in {"success", "failed"}
   /\ HasFileMember(last.content)
   /\ last.count = 0
   /\ NothingWritten(last))
    => (last.outcome = "failed" /\ ~ last.deleted)

\* the run over outer.zip with the default flags, nothing failing
NestedCleanRun ==
  /\ tree = "nested"
  /\ create_backup /\ delete_original /\ preserve_structure /\ ~ extract_flat
  /\ pc = "done"
  /\ returned = "true"
  /\ exit_reason = "empty"
  /\ del_failures = 0
  /\ failures = << >>

NestedBothDone ==
  /\ ScanSet(fs) = {}
  /\ <<O_ZIP>> \notin DOMAIN fs.files
  /\ \A p \in DOMAIN fs.files : Name(p) # I_TAR_GZ
  /\ stats.success = 2

\* C7 as stated: the nested run ends with both archives deleted, success = 2
\* and a round count of 2.
NestedRunTwoRounds ==
  NestedCleanRun => (NestedBothDone /\ round_count = 2)

\* C7 amended: the nested run ends with both archives deleted, success = 2
\* and a round count of 3: two rounds that extract and the round whose scan
\* is empty.
NestedRunThreeRounds ==
  NestedCleanRun => (NestedBothDone /\ round_count = 3 /\ stats.error = 0)

\* C8: with create_backup, nothing is scanned, extracted or deleted before
\* the backup was made; a backup that failed ends the run with failure, the
\* tree untouched and every counter 0.
BackupBeforeAnything ==
  /\ (create_backup /\ backup # "ok")
       => (/\ pc \in {"run", "backup", "done"}
           /\ fs = InitialTree(tree)
           /\ stats = ZeroStats
           /\ round_count = 0
           /\ compressed_files = <<>>
           /\ last = NoCall)
  /\ backup = "failed"
       => (/\ pc = "done"
           /\ returned = "false"
           /\ exit_reason = "backup_failed")
  /\ (~ create_backup) => backup = "none"

\* a run ended by a failed backup, over a tree that holds an archive
BackupFailedRun ==
  /\ backup = "failed"
  /\ pc = "done"
  /\ returned = "false"
  /\ ScanSet(fs) # {}

\* a member name that is absolute or has a parent-directory segment
UnsafeName(name) ==
  \/ StartsWith(name, <<"/">>)
  \/ \E k \in 1..Len(Split(name, "/")) : Split(name, "/")[k] = <<".", ".">>

\* C9: in structured mode nothing is written for a member with an unsafe
\* name, and the other file members of the archive are written.
UnsafeMembersSkipped ==
  (last.outcome = "success" /\ ~ last.flat)
    => \A k \in 1..Len(last.content.members) :
         LET m == last.content.members[k]
         IN  IF UnsafeName(m.name) THEN ~ last.targets[k].written
             ELSE (~ m.is_dir /\ ~ m.bad) => last.targets[k].written

\* the archive of a call is one its extractor can open
Opens(call) ==
  /\ call.content.fmt = call.variant
  /\ ~ call.content.password
  /\ call.variant = "RAR" => RAR_AVAILABLE
  /\ call.variant = "7Z" => SEVENZ_AVAILABLE

\* C10: in every variant and both modes a member that fails is skipped: the
\* call returns, the archive counts as a success, and the file members
\* after the failed one are written.
MemberFailureSkipped ==
  (/\ last.outcome \in {"success", "failed"}
   /\ Opens(last)
   /\ \E k \in 1..Len(last.content.members) : last.content.members[k].bad)
    => (/\ last.outcome = "success"
        /\ \A k \in 1..Len(last.content.members) :
             LET m == last.content.members[k]
             IN  (~ m.is_dir /\ ~ m.bad /\ ~ UnsafeName(m.name))
                   => (k <= Len(last.targets) /\ last.targets[k].written))

\* what makes run return False: the working directory is missing or no
\* directory, the requested backup failed, or an interrupt escaped the loop
RunFailed ==
  \/ work_dir_kind \in {"missing", "file"}
  \/ backup = "failed"
  \/ last.outcome = "interrupted"

\* C11: a run that ended returned False exactly when the working directory
\* is missing or no directory, the backup failed or an interrupt escaped the
\* loop, and True otherwise, failed archives or not; with one
\* password-protected archive it returns True with error = 1 and the archive
\* still in place.
ExitBehaviour ==
  pc = "done"
    => (/\ returned = (IF RunFailed THEN "false" ELSE "true")
        /\ (tree = "secret" /\ ~ RunFailed)
             => (/\ stats.error = 1
                 /\ stats.success = 0
                 /\ <<S_ZIP>> \in DOMAIN fs.files))

\* the run over the one password-protected archive ended with success
\* reported
SecretRunDone ==
  /\ pc = "done"
  /\ tree = "secret"
  /\ returned = "true"
  /\ stats.error = 1
  /\ exit_reason = "stall"

\* how many members of a call were written to the destination
WrittenCount(call) ==
  Cardinality({k \in 1..Len(call.targets) : call.targets[k].written})

\* C12: the count a successful extract returns is the number of file
\* members it wrote: directory entries and members it skipped are not in it.
CountIsFilesWritten ==
  last.outcome = "success" => last.count = WrittenCount(last)

\* ------------------------------------------------- the functions of utils.py
\* The functions of utils.py and get_extraction_path, each called once on an
\* argument drawn from a bounded set; the run itself stands still.
SeqsUpTo(S, n) == UNION {[1..k -> S] : k \in 0..n}

TEXT_CHARS == {"e", "U+0301", ".", " ", "/", "x", ":"}
BYTES == {"61", "2e", "3a", "c3", "a9", "81", "ff"}

\* the arguments of safe_filename: text, bytes, and what is neither
FilenameArgs ==
  {[kind |-> "str", val |-> v] : v \in SeqsUpTo(TEXT_CHARS, MaxNameLen)}
    \cup {[kind |-> "bytes", val |-> v] : v \in SeqsUpTo(BYTES, MaxNameLen)}
    \cup {[kind |-> "none", val |-> <<>>]}

UtilInit ==
  /\ tree = "plain"
  /\ work_dir_kind = "dir"
  /\ create_backup = FALSE
  /\ delete_original = FALSE
  /\ preserve_structure \in BOOLEAN
  /\ extract_flat = FALSE
  /\ RAR_AVAILABLE = TRUE
  /\ SEVENZ_AVAILABLE = TRUE
  /\ fs = InitialTree(tree)
  /\ stats = [f \in STATS_FIELDS |-> 0]
  /\ pc = "utils"
  /\ backup = "none"
  /\ round_count = 0
  /\ compressed_files = <<>>
  /\ idx = 0
  /\ round_start_success = 0
  /\ round_start_error = 0
  /\ returned = "none"
  /\ exit_reason = "none"
  /\ last = NoCall
  /\ failures = << >>
  /\ succeeded = {}
  /\ del_failures = 0
  /\ util = NoUtil

\* a call of safe_filename
CallSafeFilename ==
  /\ util.fn = "none"
  /\ \E arg \in FilenameArgs, t \in Times :
       util' = [fn |-> "safe_filename", arg |-> arg, t |-> t,
                result |-> SafeFilenameOf(arg, t)]
  /\ UNCHANGED run_vars

\* The candidates of avoid_filename_conflict, each with the two parts
\* os.path.splitext gives for it.
ConflictTargets ==
  {[name |-> <<"x">>, root |-> <<"x">>, ext |-> <<>>],
   [name |-> <<"x", ".", "e">>, root |-> <<"x">>, ext |-> <<".", "e">>],
   [name |-> <<".", "x">>, root |-> <<".", "x">>, ext |-> <<>>],
   [name |-> <<"x", ".", "e", ".", "e">>, root |-> <<"x", ".", "e">>,
    ext |-> <<".", "e">>]}

\* the path of the candidate's numbered or stamped variant
Variant(target, suffix) == <<target.root \o <<"_">> \o suffix \o target.ext>>

\* which numbered variants exist: any few of the first, or all of them
TakenSets == (SUBSET (1..MaxCollisions)) \cup {1..CONFLICT_LIMIT}

\* int(time.time()) at any time after 02:46:39 on 1 January 1970
ClockTimes == {CONFLICT_LIMIT + 1 + t : t \in Times}

\* the tree a call of avoid_filename_conflict finds
ExistingTree(arg, t) ==
  [files |->
     [p \in (IF arg.base THEN {<<arg.target.name>>} ELSE {})
              \cup {Variant(arg.target, Decimal(k)) : k \in arg.taken}
              \cup (IF arg.stamp THEN {Variant(arg.target, Decimal(t))}
                     ELSE {}) |-> Data],
   dirs |-> {<<>>}]

\* a call of avoid_filename_conflict
CallAvoidConflict ==
  /\ util.fn = "none"
  /\ \E target \in ConflictTargets, base \in BOOLEAN, taken \in TakenSets,
        stamp \in BOOLEAN, t \in ClockTimes :
       \E arg \in {[target |-> target, base |-> base, taken |-> taken,
                     stamp |-> stamp]} :
         util' = [fn |-> "avoid_filename_conflict", arg |-> arg, t |-> t,
                  result |->
                    avoid_filename_conflict(ExistingTree(arg, t),
                                            <<target.name>>, t)]
  /\ UNCHANGED run_vars

\* File names for get_file_extension: what stands before the extension,
\* and the extension as written with the extension it should be read as.
Stems ==
  {<<"a">>, <<"a", ".", "b">>, <<"a", ".", "t", "a", "r">>, <<".", "a">>,
   <<"a", ".">>}

ExtCases ==
  {[ext |-> e, expected |-> e] :
     e \in {<<".", "z", "i", "p">>, <<".", "r", "a", "r">>, <<".", "7", "z">>,
            <<".", "t", "a", "r">>, <<".", "t", "a", "r", ".", "g", "z">>,
            <<".", "t", "g", "z">>, <<".", "t", "a", "r", ".", "b", "z", "2">>,
            <<".", "t", "b", "z", "2">>, <<".", "t", "a", "r", ".", "x", "z">>,
            <<".", "t", "x", "z">>, <<".", "g", "z">>, <<".", "t", "x", "t">>}}
    \cup {[ext |-> <<".", "Z", "I", "P">>, expected |-> <<".", "z", "i", "p">>]}

Folders == {<<>>, <<<<"d">>>>, <<<<"d", ".", "t", "a", "r", ".", "g", "z">>>>}

\* a call of get_file_extension, and of get_extractor on what it returned
CallGetFileExtension ==
  /\ util.fn = "none"
  /\ \E stem \in Stems, case \in ExtCases, folder \in Folders :
       \E ext \in {get_file_extension(folder \o <<stem \o case.ext>>)} :
         util' = [fn |-> "get_file_extension",
                  arg |-> [stem |-> stem, ext |-> case.ext,
                           expected |-> case.expected, folder |-> folder],
                  result |-> ext,
                  accepted |-> ext \in SUPPORTED_EXTENSIONS,
                  variant |-> get_extractor(ext)]
  /\ UNCHANGED run_vars

\* Member paths for is_safe_path: up to MaxSegments segments joined by "/",
\* below the root or not.
MaxSegments == 3

SEGMENTS ==
  {<<"a">>, <<".", ".">>, <<".">>, <<"a", ".", ".", "b">>, <<"a", ":", "b">>,
   <<"c", ".", "t", "x", "t">>}

MemberPaths ==
  {[absolute |-> absolute, segments |-> segments] :
     absolute \in BOOLEAN,
     segments \in SeqsUpTo(SEGMENTS, MaxSegments) \ {<<>>}}

\* the string of a member path
MemberPathStr(arg) ==
  (IF arg.absolute THEN <<"/">> ELSE <<>>) \o PathStr(arg.segments)

\* a call of is_safe_path
CallIsSafePath ==
  /\ util.fn = "none"
  /\ \E arg \in MemberPaths :
       util' = [fn |-> "is_safe_path", arg |-> arg,
                result |-> is_safe_path(MemberPathStr(arg))]
  /\ UNCHANGED run_vars

\* a call of get_extraction_path under the configured mode
CallGetExtractionPath ==
  /\ util.fn = "none"
  /\ \E stem \in Stems, case \in ExtCases, folder \in Folders :
       util' = [fn |-> "get_extraction_path",
                arg |-> [stem |-> stem, ext |-> case.ext,
                         expected |-> case.expected, folder |-> folder],
                result |-> get_extraction_path(folder \o <<stem \o case.ext>>,
                                               preserve_structure)]
  /\ UNCHANGED run_vars

\* Archives for a call of extract taken alone: up to MaxMembers members
\* drawn from MEMBERS, each file with a size of its own, read as the right
\* format, as a password-protected archive or as a damaged file; the
\* destination is the folder g, empty or already holding a file a.
MaxMembers == 2

Sized(n) == [fmt |-> "DATA", size |-> n, password |-> FALSE, members |-> <<>>]

MEMBERS ==
  {File(<<"a">>, Sized(1)), File(<<"d", "/", "a">>, Sized(2)),
   Dir(<<"d", "/">>), File(<<".", ".", "/", "e">>, Sized(3)),
   File(<<"/", "r">>, Sized(4)), File(<<".", "/", ".", ".">>, Sized(5)),
   BadFile(<<"x">>)}

DESTINATION == <<<<"g">>>>

Existing ==
  {[files |-> << >>, dirs |-> {<<>>, DESTINATION}],
   [files |-> (DESTINATION \o <<<<"a">>>> :> Sized(6)),
    dirs |-> {<<>>, DESTINATION}]}

Contents(variant) ==
  {[fmt |-> fmt, size |-> 7, password |-> password, members |-> members] :
     fmt \in {variant, "DATA"}, password \in BOOLEAN,
     members \in SeqsUpTo(MEMBERS, MaxMembers)}

ExtractArgs ==
  {[variant |-> variant, content |-> content, before |-> before,
    flat |-> flat, t |-> t] :
     variant \in {"ZIP", "RAR", "7Z", "TAR"},
     content \in UNION {Contents(v) : v \in {"ZIP", "RAR", "7Z", "TAR"}},
     before \in Existing, flat \in BOOLEAN, t \in Times}

\* a call of extractor.extract with both libraries installed
CallExtract ==
  /\ util.fn = "none"
  /\ \E arg \in ExtractArgs :
       /\ arg.content.fmt \in {arg.variant, "DATA"}
       /\ \E r \in {Extract(arg.variant, arg.content, arg.before,
                            DESTINATION, arg.flat, arg.t, TRUE, TRUE)} :
            util' = [fn |-> "extract", arg |-> arg, result |-> r,
                     failure |-> OpenFailure(arg.variant, arg.content,
                                             TRUE, TRUE)]
  /\ UNCHANGED run_vars

UtilNext ==
  \/ CallSafeFilename
  \/ CallAvoidConflict
  \/ CallGetFileExtension
  \/ CallIsSafePath
  \/ CallGetExtractionPath
  \/ CallExtract

UtilSpec == UtilInit /\ [][UtilNext]_vars

\* C13: safe_filename returns, for text, for bytes and for anything else, a
\* name that is not empty, holds none of < > : " / \ | ? * and neither
\* starts nor ends with a dot or a space.
SafeFilenameIsSafe ==
  util.fn = "safe_filename"
    => (/\ util.result # <<>>
        /\ \A k \in 1..Len(util.result) :
             util.result[k]
               \notin {"<", ">", ":", "\"", "/", "\\", "|", "?", "*"}
        /\ util.result[1] \notin {".", " "}
        /\ util.result[Len(util.result)] \notin {".", " "})

\* bytes that only latin1 decodes, with a colon: the byte 81 and an
\* underscore come back
FallbackBytesMadeSafe ==
  /\ util.fn = "safe_filename"
  /\ util.arg = [kind |-> "bytes", val |-> <<"81", "3a">>]
  /\ util.result = <<"U+0081", "_">>

\* C14 as stated: a text name without an illegal character comes back
\* unchanged.
LegalNameUnchanged ==
  (/\ util.fn = "safe_filename"
   /\ util.arg.kind = "str"
   /\ \A k \in 1..Len(util.arg.val) : util.arg.val[k] \notin ILLEGAL_CHARS)
    => util.result = util.arg.val

\* a text name that safe_filename has nothing to do to: not empty, no
\* illegal character, no decomposed pair, no dot or space at either end
WellFormedName(name) ==
  /\ name # <<>>
  /\ \A k \in 1..Len(name) : name[k] \notin ILLEGAL_CHARS
  /\ \A k \in 1..(Len(name) - 1) : ~ (name[k] = "e" /\ name[k + 1] = "U+0301")
  /\ name[1] \notin {".", " "}
  /\ name[Len(name)] \notin {".", " "}

\* C14 amended: a text name that is not empty, has no illegal character, is
\* in composed form and neither starts nor ends with a dot or a space comes
\* back unchanged.
WellFormedNameUnchanged ==
  (/\ util.fn = "safe_filename"
   /\ util.arg.kind = "str"
   /\ WellFormedName(util.arg.val))
    => util.result = util.arg.val

\* a name with a dot inside came back as it was
DottedNameKept ==
  /\ util.fn = "safe_filename"
  /\ util.arg = [kind |-> "str", val |-> <<"x", ".", "e">>]
  /\ util.result = <<"x", ".", "e">>

\* C15: the path avoid_filename_conflict returns does not exist in the tree
\* it was called on, however many numbered names exist.
ConflictResultIsFree ==
  util.fn = "avoid_filename_conflict"
    => ~ Exists(ExistingTree(util.arg, util.t), util.result)

\* the smallest counter from 1 on that is not in a set of counters
FirstFree(taken) ==
  CHOOSE k \in 1..(Cardinality(taken) + 1) :
    k \notin taken /\ \A j \in 1..(k - 1) : j \in taken

\* C16: avoid_filename_conflict returns the candidate when it does not
\* exist; else the variant with the smallest counter from 1 to 9999 that does
\* not exist, the counter put before the extension; else, all 9999 existing,
\* the variant with the timestamp.
ConflictResultIsFirstFree ==
  util.fn = "avoid_filename_conflict"
    => util.result =
         (IF ~ util.arg.base THEN <<util.arg.target.name>>
          ELSE IF FirstFree(util.arg.taken) <= CONFLICT_LIMIT
               THEN Variant(util.arg.target,
                            Decimal(FirstFree(util.arg.taken)))
               ELSE Variant(util.arg.target, Decimal(util.t)))

\* with x.e, x_1.e and x_3.e there, x_2.e came back
SecondVariantReturned ==
  /\ util.fn = "avoid_filename_conflict"
  /\ util.arg.target.name = <<"x", ".", "e">>
  /\ util.arg.base
  /\ util.arg.taken = {1, 3}
  /\ util.result = <<<<"x", "_", "2", ".", "e">>>>

\* the variant that reads each supported extension
VariantOf ==
  (<<".", "z", "i", "p">> :> "ZIP") @@ (<<".", "r", "a", "r">> :> "RAR")
  @@ (<<".", "7", "z">> :> "7Z") @@ (<<".", "t", "a", "r">> :> "TAR")
  @@ (<<".", "t", "a", "r", ".", "g", "z">> :> "TAR")
  @@ (<<".", "t", "g", "z">> :> "TAR")
  @@ (<<".", "t", "a", "r", ".", "b", "z", "2">> :> "TAR")
  @@ (<<".", "t", "b", "z", "2">> :> "TAR")
  @@ (<<".", "t", "a", "r", ".", "x", "z">> :> "TAR")
  @@ (<<".", "t", "x", "z">> :> "TAR")

\* C17: for a file name that ends in a supported extension, in either case,
\* get_file_extension returns that extension, the compound one and not its
\* last suffix, and get_extractor gives its variant; whatever extension the
\* scan accepts, get_extractor does not raise.
ExtensionAndVariantMatch ==
  util.fn = "get_file_extension"
    => (/\ util.arg.expected \in DOMAIN VariantOf
             => (/\ util.result = util.arg.expected
                 /\ util.accepted
                 /\ util.variant = VariantOf[util.arg.expected])
        /\ util.accepted => util.variant # "NONE")

\* a.b.tar.gz in the folder d was read as .tar.gz and given to the TAR
\* variant
TarGzRecognised ==
  /\ util.fn = "get_file_extension"
  /\ util.arg.stem = <<"a", ".", "b">>
  /\ util.arg.ext = <<".", "t", "a", "r", ".", "g", "z">>
  /\ util.arg.folder = <<<<"d">>>>
  /\ util.result = <<".", "t", "a", "r", ".", "g", "z">>
  /\ util.variant = "TAR"

\* a member path has a parent-directory traversal segment
HasTraversalSegment(arg) ==
  \E k \in 1..Len(arg.segments) : arg.segments[k] = <<".", ".">>

\* C18: is_safe_path returns false for a member path that is absolute or has
\* a parent-directory traversal segment, and true for every relative path
\* without such a segment.
SafeIffRelativeWithoutTraversal ==
  util.fn = "is_safe_path"
    => (util.result <=> ~ (util.arg.absolute \/ HasTraversalSegment(util.arg)))

\* the rejecting direction alone: an absolute path or one with a traversal
\* segment is never accepted
UnsafePathRejected ==
  (util.fn = "is_safe_path"
     /\ (util.arg.absolute \/ HasTraversalSegment(util.arg)))
    => ~ util.result

\* C19: in mirrored mode the destination of an archive is the sibling
\* directory named by the archive's file name without its whole recognised
\* extension, a compound extension included (d/a.tar.gz goes to d/a).
DestinationStripsWholeExtension ==
  (/\ util.fn = "get_extraction_path"
   /\ preserve_structure
   /\ util.arg.expected \in DOMAIN VariantOf)
    => util.result = util.arg.folder \o <<util.arg.stem>>

\* the paths a call of extract_single_file wrote
WrittenBy(call) ==
  {call.targets[k].path :
     k \in {j \in 1..Len(call.targets) : call.targets[j].written}}

\* the paths of a scan result
SnapshotPaths(found) == {found[k][1] : k \in 1..Len(found)}

\* a round attempts the archives of its snapshot, each once and in order:
\* the snapshot is the scan of the tree with no path twice, it does not
\* change during the round, every attempt is of compressed_files[idx] and
\* moves idx on by one, and the round ends after the last of them
SnapshotInOrder ==
  /\ (pc = "scan" /\ pc' = "extract")
       => (/\ idx' = 1
           /\ SnapshotPaths(compressed_files') = ScanSet(fs)
           /\ Len(compressed_files') = Cardinality(ScanSet(fs)))
  /\ pc = "extract"
       => (/\ compressed_files' = compressed_files
           /\ round_count' = round_count
           /\ last'.path = compressed_files[idx][1]
           /\ last'.round = round_count
           /\ pc' \in {"extract", "round_end"} => idx' = idx + 1
           /\ pc' = "round_end" => idx = Len(compressed_files))
  /\ pc = "round_end" => compressed_files' = compressed_files

\* an archive file written by the previous attempt of the same round is not
\* the one attempted now
WrittenWaitsForNextRound ==
  (pc = "extract" /\ last.round = round_count)
    => last'.path \notin WrittenBy(last)

\* the attempts of a round follow its snapshot
AttemptsFollowSnapshot == [][SnapshotInOrder]_vars

\* C20: within a round exactly the archives of the round's snapshot are
\* attempted, each once and one after the other, and an archive file that an
\* extraction of the round created, or created again under the same name, is
\* not attempted before the next round.
RoundAttemptsSnapshotOnly ==
  [][SnapshotInOrder /\ WrittenWaitsForNextRound]_vars

\* the members of a call of extract that are files with a base name
FileMembers(arg) ==
  {k \in 1..Len(arg.content.members) :
     /\ ~ arg.content.members[k].is_dir
     /\ Basename(arg.content.members[k].name) # <<>>}

\* C21: in flat mode a directory entry is skipped and every file member is
\* written directly in the destination under a name of its own, so that
\* every file that was there before and every file written for an earlier
\* member is still there with its content after the call.
FlatKeepsEveryFile ==
  (/\ util.fn = "extract"
   /\ util.arg.flat
   /\ ~ util.result.raised
   /\ \A k \in 1..Len(util.arg.content.members) :
        ~ util.arg.content.members[k].bad)
    => (/\ \A p \in DOMAIN util.arg.before.files :
             /\ p \in DOMAIN util.result.fs.files
             /\ util.result.fs.files[p] = util.arg.before.files[p]
        /\ \A k \in 1..Len(util.arg.content.members) :
             IF k \in FileMembers(util.arg)
             THEN /\ util.result.targets[k].written
                  /\ Parent(util.result.targets[k].path) = DESTINATION
                  /\ util.result.targets[k].path
                       \notin DOMAIN util.arg.before.files
                  /\ util.result.targets[k].path
                       \in DOMAIN util.result.fs.files
                  /\ util.result.fs.files[util.result.targets[k].path]
                       = util.arg.content.members[k].content
             ELSE ~ util.result.targets[k].written)

\* the same for the ZIP, RAR and TAR variants alone, which write through
\* extract_files_flat
FlatKeepsEveryFileSkeleton ==
  (util.fn = "extract" /\ util.arg.variant # "7Z") => FlatKeepsEveryFile

\* the 7Z call on the members d/a and a, the destination being empty, does
\* not lose the file written for d/a
SevenZipSameBaseNameKept ==
  (/\ util.fn = "extract"
   /\ util.arg.variant = "7Z"
   /\ util.arg.before.files = << >>
   /\ util.arg.content.members
        = <<File(<<"d", "/", "a">>, Sized(2)), File(<<"a">>, Sized(1))>>)
    => FlatKeepsEveryFile

\* C22: for a password-protected ZIP, RAR or 7Z archive the extract call
\* raises before a member is read: nothing is written or counted, the tree is
\* as before, and what is raised is the password failure, which is not what
\* a damaged archive raises.
EncryptedFailsFast ==
  util.fn = "extract"
    => (/\ (/\ util.arg.variant \in {"ZIP", "RAR", "7Z"}
            /\ util.arg.content.fmt = util.arg.variant
            /\ util.arg.content.password)
             => (/\ util.result.raised
                 /\ util.result.fs = util.arg.before
                 /\ util.result.targets = <<>>
                 /\ util.result.count = 0
                 /\ util.failure = "password")
        /\ util.arg.content.fmt # util.arg.variant
             => (/\ util.result.raised
                 /\ util.result.fs = util.arg.before
                 /\ util.failure = "corrupt"))

\* a password-protected ZIP with the members a and d/a was refused and the
\* destination, which held a file, is as it was
EncryptedZipRefused ==
  /\ util.fn = "extract"
  /\ util.arg.variant = "ZIP"
  /\ util.arg.content.fmt = "ZIP"
  /\ util.arg.content.password
  /\ util.arg.content.members
       = <<File(<<"a">>, Sized(1)), File(<<"d", "/", "a">>, Sized(2))>>
  /\ util.arg.before.files # << >>
  /\ util.result.raised
  /\ util.result.fs = util.arg.before
  /\ util.failure = "password"

UnderDestination(path) ==
  /\ Len(path) > Len(DESTINATION)
  /\ IsPrefix(DESTINATION, path)
  /\ \A k \in (Len(DESTINATION) + 1)..Len(path) :
       /\ path[k] \notin {<<>>, <<".">>, <<".", ".">>}
       /\ \A j \in 1..Len(path[k]) : path[k][j] \notin {"/", "\\"}

\* C24: in structured mode of the ZIP, RAR and TAR variants every path
\* written, and every file and folder the call adds to the tree, lies under
\* the destination with no ".", ".." or absolute component, whatever the
\* member names are.
StructuredStaysUnderDestination ==
  (/\ util.fn = "extract"
   /\ util.arg.variant \in {"ZIP", "RAR", "TAR"}
   /\ ~ util.arg.flat)
    => (/\ \A k \in 1..Len(util.result.targets) :
             util.result.targets[k].written
               => UnderDestination(util.result.targets[k].path)
        /\ \A p \in DOMAIN util.result.fs.files
                      \ DOMAIN util.arg.before.files :
             UnderDestination(p)
        /\ \A d \in util.result.fs.dirs \ util.arg.before.dirs :
             UnderDestination(d))

\* the ZIP members ../e and ./.. were written below the destination: ../e
\* as e in a folder with a generated name, ./.. under two generated names
TraversalNamesContained ==
  /\ util.fn = "extract"
  /\ util.arg.variant = "ZIP"
  /\ ~ util.arg.flat
  /\ util.arg.content.members
       = <<File(<<".", ".", "/", "e">>, Sized(3)),
           File(<<".", "/", ".", ".">>, Sized(5))>>
  /\ ~ util.result.raised
  /\ util.result.targets[1].written
  /\ Len(util.result.targets[1].path) = 3
  /\ util.result.targets[1].path[3] = <<"e">>
  /\ UnderDestination(util.result.targets[1].path)
  /\ util.result.targets[2].written
  /\ Len(util.result.targets[2].path) = 3
  /\ UnderDestination(util.result.targets[2].path)
  /\ util.result.targets[2].path \in DOMAIN util.result.fs.files

\* C25: with delete_original and no failed deletion, a run that ended by an
\* empty scan leaves no file with a supported extension in the tree, and a
\* run that ended by the stall rule leaves only such files as were attempted,
\* and failed, in the final round.
NoExtractableLeftBehind ==
  (pc = "done" /\ delete_original /\ del_failures = 0)
    => (/\ exit_reason = "empty" => ScanSet(fs) = {}
        /\ exit_reason = "stall"
             => \A p \in ScanSet(fs) :
                  /\ p \in SnapshotPaths(compressed_files)
                  /\ p \in DOMAIN failures)

\* the half about the exit by an empty scan
EmptyExitLeavesNone ==
  (pc = "done" /\ exit_reason = "empty") => ScanSet(fs) = {}

\* C26: without delete_original an archive that was extracted with success
\* stays in the tree, is found by every later scan and is extracted with
\* success again in every later round, and a run in which an archive was
\* extracted ends at the cap only, after MAX_PROCESSING_ROUNDS rounds and
\* with at least MAX_PROCESSING_ROUNDS successes.
KeptOriginalExtractedAgain ==
  [][~ delete_original
       => (/\ succeeded' \subseteq DOMAIN fs'.files
           /\ (pc = "scan" /\ pc' = "extract")
                => succeeded \subseteq SnapshotPaths(compressed_files')
           /\ (pc = "extract" /\ compressed_files[idx][1] \in succeeded)
                => last'.outcome # "failed"
           /\ (pc' = "done" /\ succeeded' # {}
                 /\ exit_reason' \in {"empty", "stall", "cap"})
                => (/\ exit_reason' = "cap"
                    /\ round_count' = MAX_PROCESSING_ROUNDS
                    /\ stats'.success >= MAX_PROCESSING_ROUNDS))]_vars

\* the part of it that is about the file staying and about how the run
\* ends: without delete_original an archive that was extracted with success
\* is still in the tree after the call, and a run in which an archive was
\* extracted leaves the loop neither by an empty scan nor by the stall rule
\* but at the cap, after MAX_PROCESSING_ROUNDS rounds and with at least
\* MAX_PROCESSING_ROUNDS successes.
KeepOriginalRunsToCap ==
  ~ delete_original
    => (/\ last.outcome = "success" => last.path \in DOMAIN fs.files
        /\ (pc = "done" /\ stats.success > 0
              /\ exit_reason \in {"empty", "stall", "cap"})
             => (/\ exit_reason = "cap"
                 /\ round_count = MAX_PROCESSING_ROUNDS
                 /\ stats.success >= MAX_PROCESSING_ROUNDS))

\* a run that kept the originals ended at the cap with the archive of its
\* last success still in the tree
KeptOriginalAtCap ==
  /\ pc = "done"
  /\ ~ delete_original
  /\ exit_reason = "cap"
  /\ round_count = MAX_PROCESSING_ROUNDS
  /\ stats.success >= MAX_PROCESSING_ROUNDS
  /\ stats.freed_size = 0
  /\ last.outcome = "success"
  /\ last.round = MAX_PROCESSING_ROUNDS
  /\ last.path \in DOMAIN fs.files
====
